---- MODULE Spec2Model ----
(***************************************************************************)
(* The junit callback plugin (lib/ansible/plugins/callback/junit.py): the  *)
(* store of TaskData / HostData records that the v2_* handlers build, the  *)
(* status rules of _finish_task, and the TestCase list that                *)
(* _generate_report hands to the JUnit writer.                             *)
(*                                                                         *)
(* Text is a sequence of tokens (words, " ", "\n", punctuation), so that   *)
(* strip, join, substring search and the %-formats are computed.           *)
(***************************************************************************)
EXTENDS Integers, Sequences, FiniteSets, TLC

\* Bounds of the model.
MaxOutcomes == 2        \* outcome notifications delivered in one run

(***************************************************************************)
(* Text helpers.                                                           *)
(***************************************************************************)
White == {" ", "\n"}

RECURSIVE LStrip(_)
LStrip(s) == IF s # <<>> /\ Head(s) \in White THEN LStrip(Tail(s)) ELSE s

RECURSIVE RStrip(_)
RStrip(s) ==
    IF s # <<>> /\ s[Len(s)] \in White THEN RStrip(SubSeq(s, 1, Len(s) - 1)) ELSE s

\* str.strip()
Strip(s) == RStrip(LStrip(s))

\* sub in s
Contains(s, sub) ==
    \E i \in 1..(Len(s) - Len(sub) + 1) : SubSeq(s, i, i + Len(sub) - 1) = sub

\* s.split('\n')[-1]
LastLine(s) ==
    LET brk == {i \in 1..Len(s) : s[i] = "\n"}
        last == IF brk = {} THEN 0 ELSE CHOOSE i \in brk : \A j \in brk : j <= i
    IN  SubSeq(s, last + 1, Len(s))

\* ', '.join(('%s=%s' % a for a in task.args.items()))
RECURSIVE JoinArgs(_)
JoinArgs(args) ==
    IF args = <<>> THEN <<>>
    ELSE LET a == Head(args)
             one == a[1] \o <<"=">> \o a[2]
         IN  IF Tail(args) = <<>> THEN one
             ELSE one \o <<",", " ">> \o JoinArgs(Tail(args))

EXPECTED_FAILURE == <<"EXPECTED", " ", "FAILURE">>

(***************************************************************************)
(* The objects the engine passes to the handlers.                          *)
(***************************************************************************)
TaskUuids == {"t1", "t2"}
HostUuids == {"h1"}
NoHost == "-"           \* the result object has no _host attribute

NameInstall == <<"Install", " ", "package">>
NameDeploy == <<" ", "Deploy", " ", "(", "EXPECTED", " ", "FAILURE", ")", " ">>
ArgsState == << <<<<"state">>, <<"present">>>> >>
ArgsMsg == << <<<<"msg">>, <<"EXPECTED", " ", "FAILURE">>>>, <<<<"rc">>, <<"1">>>> >>
PathFoo12 == <<"roles/", "foo", ".yml", ":", "12">>
PathFoo7 == <<"roles/", "foo", ".yml", ":", "7">>
PathBar3 == <<"bar", ".yaml", ":", "3">>

Task(uuid, name, args, no_log, path) ==
    [_uuid |-> uuid, name |-> name, args |-> args, no_log |-> no_log, path |-> path]

\* (name, args, no_log, path) of the task objects
TaskShapes ==
    { <<NameInstall, ArgsState, FALSE, PathFoo12>>,
      <<NameDeploy, <<>>, FALSE, PathFoo7>>,
      <<NameInstall, ArgsMsg, TRUE, PathBar3>>,
      <<NameInstall, ArgsMsg, FALSE, PathFoo12>> }

\* a lone surrogate in a text, and the replacement character
Surrogate == "<udc80>"
Replacement == "<ufffd>"

\* result._result: the keys present, and the values of those keys
NoText == <<>>
Payload(keys, changed, exception, msg, rc, skip_reason) ==
    [keys |-> keys, changed |-> changed, exception |-> exception, msg |-> msg,
     rc |-> rc, skip_reason |-> skip_reason]

ResEmpty == Payload({}, FALSE, NoText, NoText, 0, NoText)
ResChangedMsg ==
    Payload({"changed", "msg"}, TRUE, NoText, <<"boom", Surrogate>>, 0, NoText)
ResException ==
    Payload({"changed", "exception", "msg", "rc"}, TRUE,
            <<"Traceback", "\n", "KeyError", ":", " ", "x", "\n">>, <<"failed">>, 1,
            NoText)
ResSkip == Payload({"changed", "skip_reason"}, FALSE, NoText, NoText, 0, <<"when">>)

Payloads == {ResEmpty, ResChangedMsg, ResException, ResSkip}

\* what '%s' % result gives for each payload's carrier object
Repr(p) ==
    CASE p = ResEmpty -> "<r0>"
      [] p = ResChangedMsg -> "<r1>"
      [] p = ResException -> "<r2>"
      [] OTHER -> "<r3>"

\* TaskResult / IncludedFile objects: _task, an optional _host, _result
Result(task, host, res) == [_task |-> task, _host |-> host, _result |-> res]

(***************************************************************************)
(* What the engine can deliver in one run: the task objects of the         *)
(* playbook, the result objects, and the number of outcome notifications.  *)
(***************************************************************************)
\* two tasks; results of the first with and without a host, of the second with a host;
\* the tasks belong to a play: they start after v2_playbook_on_play_start
StoreRun ==
    [tasks |-> { Task("t1", NameInstall, ArgsState, FALSE, PathFoo12),
                 Task("t2", NameDeploy, <<>>, FALSE, PathFoo7) },
     results |-> { Result(t, "h1", ResChangedMsg) : t \in TaskUuids }
                 \cup { Result("t1", NoHost, p) : p \in {ResEmpty, ResException} },
     outcomes |-> MaxOutcomes,
     play_first |-> TRUE]

\* the first task under every shape and the second under one; one outcome, of the
\* first task, of any payload; task starts may come before any play start
ReportRun ==
    [tasks |-> { Task("t1", s[1], s[2], s[3], s[4]) : s \in TaskShapes }
               \cup { Task("t2", NameInstall, <<>>, FALSE, PathBar3) },
     results |-> { Result("t1", h, p) : h \in HostUuids \cup {NoHost}, p \in Payloads },
     outcomes |-> 1,
     play_first |-> FALSE]

\* two tasks; two result objects of the first, with and without a host; one outcome more
\* than in StoreRun, so that an outcome can meet a task that holds two host records;
\* the tasks belong to a play: they start after v2_playbook_on_play_start
MergeRun ==
    [tasks |-> { Task("t1", NameInstall, ArgsState, FALSE, PathFoo12),
                 Task("t2", NameDeploy, <<>>, FALSE, PathFoo7) },
     results |-> { Result("t1", "h1", ResChangedMsg), Result("t1", NoHost, ResEmpty) },
     outcomes |-> MaxOutcomes + 1,
     play_first |-> TRUE]

HostName(h) == <<"name-of-", h>>

Plays == {<<"Setup">>}
Playbooks == {[dir |-> <<"plays/">>, stem |-> <<"site">>, ext |-> <<".yml">>]}
None == <<"None">>      \* what '%s' % None gives

(***************************************************************************)
(* OrderedDict: the values in insertion order, each carrying its key as    *)
(* .uuid; assigning to a key that is present keeps its position.           *)
(***************************************************************************)
Keys(d) == {d[i].uuid : i \in 1..Len(d)}
IndexOf(d, k) == CHOOSE i \in 1..Len(d) : d[i].uuid = k
Get(d, k) == d[IndexOf(d, k)]
Put(d, k, v) == IF k \in Keys(d) THEN [d EXCEPT ![IndexOf(d, k)] = v] ELSE Append(d, v)

(***************************************************************************)
(* HostData.result holds the result object the handler received or, after  *)
(* a concatenation, a str.                                                 *)
(***************************************************************************)
NoObj == [_task |-> "-", _host |-> NoHost, _result |-> ResEmpty]
ObjValue(r) == [isstr |-> FALSE, obj |-> r, text |-> <<>>]
StrValue(s) == [isstr |-> TRUE, obj |-> NoObj, text |-> s]
NoneValue == [isstr |-> FALSE, obj |-> NoObj, text |-> None]

\* '%s' % x
Str(x) == IF x.isstr THEN x.text ELSE <<Repr(x.obj._result)>>

\* class HostData
HostData(uuid, name, status, result, time) ==
    [uuid |-> uuid, name |-> name, status |-> status, result |-> result, finish |-> time]

\* class TaskData
TaskData(uuid, name, path, play, time) ==
    [uuid |-> uuid, name |-> name, path |-> path, play |-> play, start |-> time,
     host_data |-> <<>>]

\* add_host deleting the key before it assigns: a merged host moves to the end
AddHostMoveToEnd(self, host) ==
    IF host.uuid \in Keys(self.host_data) /\ host.status # "included"
    THEN [raised |-> TRUE, self |-> self]
    ELSE IF host.uuid \in Keys(self.host_data)
    THEN [raised |-> FALSE,
          self |-> [self EXCEPT !.host_data =
                      Append(SelectSeq(self.host_data, LAMBDA h : h.uuid # host.uuid),
                             [host EXCEPT !.result =
                                 StrValue(Str(Get(self.host_data, host.uuid).result)
                                          \o <<"\n">> \o Str(host.result))])]]
    ELSE [raised |-> FALSE, self |-> [self EXCEPT !.host_data = Append(self.host_data, host)]]

\* add_host putting a new host first
AddHostPrepend(self, host) ==
    IF host.uuid \in Keys(self.host_data) /\ host.status # "included"
    THEN [raised |-> TRUE, self |-> self]
    ELSE IF host.uuid \in Keys(self.host_data)
    THEN [raised |-> FALSE,
          self |-> [self EXCEPT !.host_data =
                      Put(self.host_data, host.uuid,
                          [host EXCEPT !.result =
                              StrValue(Str(Get(self.host_data, host.uuid).result)
                                       \o <<"\n">> \o Str(host.result))])]]
    ELSE [raised |-> FALSE, self |-> [self EXCEPT !.host_data = <<host>> \o self.host_data]]

\* add_host joining the new payload before the old one
AddHostJoinReversed(self, host) ==
    IF host.uuid \in Keys(self.host_data) /\ host.status # "included"
    THEN [raised |-> TRUE, self |-> self]
    ELSE LET h == IF host.uuid \in Keys(self.host_data)
                  THEN [host EXCEPT !.result =
                           StrValue(Str(host.result) \o <<"\n">>
                                    \o Str(Get(self.host_data, host.uuid).result))]
                  ELSE host
         IN  [raised |-> FALSE,
              self |-> [self EXCEPT !.host_data = Put(self.host_data, host.uuid, h)]]

\* add_host without the raise: a second outcome replaces the first
AddHostNoRaise(self, host) ==
    LET h == IF host.uuid \in Keys(self.host_data) /\ host.status = "included"
             THEN [host EXCEPT !.result =
                      StrValue(Str(Get(self.host_data, host.uuid).result)
                               \o <<"\n">> \o Str(host.result))]
             ELSE host
    IN  [raised |-> FALSE,
         self |-> [self EXCEPT !.host_data = Put(self.host_data, host.uuid, h)]]

\* TaskData.add_host: the TaskData afterwards, or the exception raised
AddHost(self, host) ==
    IF host.uuid \in Keys(self.host_data) /\ host.status # "included"
    THEN [raised |-> TRUE, self |-> self]
    ELSE LET h == IF host.uuid \in Keys(self.host_data)
                  THEN [host EXCEPT !.result =
                           StrValue(Str(Get(self.host_data, host.uuid).result)
                                    \o <<"\n">> \o Str(host.result))]
                  ELSE host
         IN  [raised |-> FALSE,
              self |-> [self EXCEPT !.host_data = Put(self.host_data, host.uuid, h)]]

\* the name _start_task records
TaskName(task) ==
    LET name == Strip(task.name)
        args == JoinArgs(task.args)
    IN  IF ~task.no_log /\ args # <<>> THEN name \o <<" ">> \o args ELSE name

\* _start_task setting the start time again when the task is known
StartTaskRestamp(data, play, task, time) ==
    IF task._uuid \in Keys(data)
    THEN Put(data, task._uuid, [Get(data, task._uuid) EXCEPT !.start = time])
    ELSE Put(data, task._uuid,
             TaskData(task._uuid, TaskName(task), task.path, play, time))

\* _start_task without the early return
StartTaskAgain(data, play, task, time) ==
    Put(data, task._uuid, TaskData(task._uuid, TaskName(task), task.path, play, time))

\* CallbackModule._start_task: the new _task_data
StartTask(data, play, task, time) ==
    IF task._uuid \in Keys(data) THEN data
    ELSE Put(data, task._uuid,
             TaskData(task._uuid, TaskName(task), task.path, play, time))

\* result._result.get('changed', False)
GetChanged(res) == IF "changed" \in res.keys THEN res.changed ELSE FALSE

\* the status rules without the fail-on-change rule
ReclassifyExpectedOnly(foc, status, result, name) ==
    IF status = "failed" /\ Contains(name, EXPECTED_FAILURE) THEN "ok" ELSE status

\* the status rules without the EXPECTED FAILURE rule
ReclassifyChangeOnly(foc, status, result, name) ==
    IF foc = "true" /\ status = "ok" /\ GetChanged(result._result) THEN "failed"
    ELSE status

\* the status rules in the other order: EXPECTED FAILURE first, then fail-on-change
ReclassifyExpectedFirst(foc, status, result, name) ==
    LET s2 == IF status = "failed" /\ Contains(name, EXPECTED_FAILURE) THEN "ok"
              ELSE status
    IN  IF foc = "true" /\ s2 = "ok" /\ GetChanged(result._result) THEN "failed" ELSE s2

\* the two status rules of _finish_task
Reclassify(foc, status, result, name) ==
    LET s1 == IF foc = "true" /\ status = "ok" /\ GetChanged(result._result)
              THEN "failed" ELSE status
    IN  IF s1 = "failed" /\ Contains(name, EXPECTED_FAILURE) THEN "ok" ELSE s1

\* host_uuid and host_name of _finish_task
HostUuidOf(result) == IF result._host # NoHost THEN result._host ELSE "include"
HostNameOf(result) == IF result._host # NoHost THEN HostName(result._host) ELSE <<"include">>

\* _finish_task with add_host assigning the host before it raises
FinishTaskStoreThenRaise(data, foc, status, result, time) ==
    IF result._task \notin Keys(data)
    THEN [fault |-> "KeyError", data |-> data]
    ELSE LET task == Get(data, result._task)
             st == Reclassify(foc, status, result, task.name)
             host == HostData(HostUuidOf(result), HostNameOf(result), st,
                              ObjValue(result), time)
             r == AddHost(task, host)
         IN  IF r.raised
             THEN [fault |-> "duplicate",
                   data |-> Put(data, result._task,
                                [task EXCEPT !.host_data =
                                    Put(task.host_data, host.uuid, host)])]
             ELSE [fault |-> "none", data |-> Put(data, result._task, r.self)]

\* _finish_task creating the TaskData of a task it does not know
FinishTaskAutoStart(data, foc, status, result, time) ==
    LET known == IF result._task \in Keys(data) THEN data
                 ELSE Append(data, TaskData(result._task, <<>>, <<>>, None, time))
        task == Get(known, result._task)
        st == Reclassify(foc, status, result, task.name)
        r == AddHost(task, HostData(HostUuidOf(result), HostNameOf(result), st,
                                    ObjValue(result), time))
    IN  IF r.raised THEN [fault |-> "duplicate", data |-> data]
        ELSE [fault |-> "none", data |-> Put(known, result._task, r.self)]

\* CallbackModule._finish_task: the new _task_data and the exception raised, if any
FinishTask(data, foc, status, result, time) ==
    IF result._task \notin Keys(data)
    THEN [fault |-> "KeyError", data |-> data]
    ELSE LET task == Get(data, result._task)
             st == Reclassify(foc, status, result, task.name)
             r == AddHost(task, HostData(HostUuidOf(result), HostNameOf(result), st,
                                         ObjValue(result), time))
         IN  IF r.raised THEN [fault |-> "duplicate", data |-> data]
             ELSE [fault |-> "none", data |-> Put(data, result._task, r.self)]

(***************************************************************************)
(* The report.                                                             *)
(***************************************************************************)
\* CallbackBase._dump_results(res, indent=0): the keys present, with their values
DumpResults(res) ==
    <<"{">>
    \o (IF "changed" \in res.keys
        THEN <<"changed", ":", IF res.changed THEN "true" ELSE "false", ",">> ELSE <<>>)
    \o (IF "exception" \in res.keys THEN <<"exception", ":">> \o res.exception \o <<",">>
        ELSE <<>>)
    \o (IF "msg" \in res.keys THEN <<"msg", ":">> \o res.msg \o <<",">> ELSE <<>>)
    \o (IF "rc" \in res.keys THEN <<"rc", ":", ToString(res.rc), ",">> ELSE <<>>)
    \o (IF "skip_reason" \in res.keys
        THEN <<"skip_reason", ":">> \o res.skip_reason \o <<",">> ELSE <<>>)
    \o <<"}">>

\* CallbackModule._cleanse_string
CleanseString(value) ==
    [i \in 1..Len(value) |-> IF value[i] = Surrogate THEN Replacement ELSE value[i]]

\* re.sub('\.yml:[0-9]+$', '', path); a path ends <<..., extension, ":", line>>
IsNumber(tok) == tok \in {"3", "7", "12"}
StripYmlLine(path) ==
    IF Len(path) >= 3 /\ path[Len(path) - 2] = ".yml" /\ path[Len(path) - 1] = ":"
       /\ IsNumber(path[Len(path)])
    THEN SubSeq(path, 1, Len(path) - 3)
    ELSE path

\* junit_xml.TestCase(name, classname, elapsed_sec, stdout), nothing added to it yet
NoInfo == [added |-> FALSE, message |-> <<>>, output |-> <<>>]
Info(message, output) == [added |-> TRUE, message |-> message, output |-> output]
TestCase(name, classname, elapsed_sec, stdout) ==
    [name |-> name, classname |-> classname, elapsed_sec |-> elapsed_sec,
     stdout |-> stdout, failure |-> NoInfo, error |-> NoInfo, skipped |-> NoInfo]

\* res.get('rc', 0)
GetRc(res) == IF "rc" \in res.keys THEN res.rc ELSE 0

\* _build_test_case with a final else in place of the test for 'skipped', and no return
\* for 'ok'
BuildTestCaseElseSkipped(tclass, task, host) ==
    LET name == <<"[">> \o host.name \o <<"]", " ">> \o task.play \o <<":", " ">>
                \o task.name
        duration == host.finish - task.start
        junit_classname == IF tclass = "true" THEN StripYmlLine(task.path) ELSE task.path
        res == host.result.obj._result
        rc == GetRc(res)
        dump == CleanseString(DumpResults(res))
        test_case == TestCase(name, junit_classname, duration, NoneValue)
    IN  IF host.status = "included"
        THEN TestCase(name, junit_classname, duration, host.result)
        ELSE IF host.status = "failed"
        THEN IF "exception" \in res.keys
             THEN [test_case EXCEPT
                     !.error = Info(LastLine(Strip(res.exception)), res.exception)]
             ELSE IF "msg" \in res.keys
             THEN [test_case EXCEPT !.failure = Info(res.msg, dump)]
             ELSE [test_case EXCEPT !.failure = Info(<<"rc=", ToString(rc)>>, dump)]
        ELSE [test_case EXCEPT
                !.skipped = Info(IF "skip_reason" \in res.keys THEN res.skip_reason
                                 ELSE <<"skipped">>, <<>>)]

\* _build_test_case looking for 'msg' before 'exception'
BuildTestCaseMsgFirst(tclass, task, host) ==
    LET name == <<"[">> \o host.name \o <<"]", " ">> \o task.play \o <<":", " ">>
                \o task.name
        duration == host.finish - task.start
        junit_classname == IF tclass = "true" THEN StripYmlLine(task.path) ELSE task.path
        res == host.result.obj._result
        rc == GetRc(res)
        dump == CleanseString(DumpResults(res))
        test_case == TestCase(name, junit_classname, duration, NoneValue)
    IN  IF host.status = "included"
        THEN TestCase(name, junit_classname, duration, host.result)
        ELSE IF host.status = "ok"
        THEN TestCase(name, junit_classname, duration, StrValue(dump))
        ELSE IF host.status = "failed"
        THEN IF "msg" \in res.keys
             THEN [test_case EXCEPT !.failure = Info(res.msg, dump)]
             ELSE IF "exception" \in res.keys
             THEN [test_case EXCEPT
                     !.error = Info(LastLine(Strip(res.exception)), res.exception)]
             ELSE [test_case EXCEPT !.failure = Info(<<"rc=", ToString(rc)>>, dump)]
        ELSE IF host.status = "skipped"
        THEN [test_case EXCEPT
                !.skipped = Info(IF "skip_reason" \in res.keys THEN res.skip_reason
                                 ELSE <<"skipped">>, <<>>)]
        ELSE test_case

\* CallbackModule._build_test_case
BuildTestCase(tclass, task, host) ==
    LET name == <<"[">> \o host.name \o <<"]", " ">> \o task.play \o <<":", " ">>
                \o task.name
        duration == host.finish - task.start
        junit_classname == IF tclass = "true" THEN StripYmlLine(task.path) ELSE task.path
        res == host.result.obj._result
        rc == GetRc(res)
        dump == CleanseString(DumpResults(res))
        test_case == TestCase(name, junit_classname, duration, NoneValue)
    IN  IF host.status = "included"
        THEN TestCase(name, junit_classname, duration, host.result)
        ELSE IF host.status = "ok"
        THEN TestCase(name, junit_classname, duration, StrValue(dump))
        ELSE IF host.status = "failed"
        THEN IF "exception" \in res.keys
             THEN [test_case EXCEPT
                     !.error = Info(LastLine(Strip(res.exception)), res.exception)]
             ELSE IF "msg" \in res.keys
             THEN [test_case EXCEPT !.failure = Info(res.msg, dump)]
             ELSE [test_case EXCEPT !.failure = Info(<<"rc=", ToString(rc)>>, dump)]
        ELSE IF host.status = "skipped"
        THEN [test_case EXCEPT
                !.skipped = Info(IF "skip_reason" \in res.keys THEN res.skip_reason
                                 ELSE <<"skipped">>, <<>>)]
        ELSE test_case

\* the inner loop with the append outside it: the last host only
HostCasesLastOnly(tclass, task, hosts) ==
    IF hosts = <<>> THEN <<>>
    ELSE <<[task |-> task.uuid, host |-> hosts[Len(hosts)].uuid,
            case |-> BuildTestCase(tclass, task, hosts[Len(hosts)])]>>

\* the inner loop of _generate_report; .task and .host name the records a case was
\* built from
RECURSIVE HostCases(_, _, _)
HostCases(tclass, task, hosts) ==
    IF hosts = <<>> THEN <<>>
    ELSE <<[task |-> task.uuid, host |-> Head(hosts).uuid,
            case |-> BuildTestCase(tclass, task, Head(hosts))]>>
         \o HostCases(tclass, task, Tail(hosts))

\* CallbackModule._generate_report: test_cases
RECURSIVE GenerateReport(_, _)
GenerateReport(tclass, data) ==
    IF data = <<>> THEN <<>>
    ELSE HostCases(tclass, Head(data), Head(data).host_data)
         \o GenerateReport(tclass, Tail(data))

(***************************************************************************)
(* The plugin's state and its handlers.                                    *)
(***************************************************************************)
VARIABLES
    fail_on_change,     \* self._fail_on_change
    task_class,         \* self._task_class
    playbook_name,      \* self._playbook_name
    play_name,          \* self._play_name
    task_data,          \* self._task_data
    now,                \* what time.time() returns
    ev,                 \* the handler that ran last, and its argument
    fault,              \* the exception that handler raised, or "none"
    report,             \* the test cases that handler wrote (v2_playbook_on_stats only)
    arrivals,           \* history: the outcome notifications delivered so far
    engine,             \* the run: what the engine can deliver
    HAS_JUNIT_XML,      \* the import of junit_xml succeeded
    HAS_ORDERED_DICT,   \* an OrderedDict could be imported
    disabled            \* self.disabled

\* what is fixed once the plugin is constructed
startup == <<HAS_JUNIT_XML, HAS_ORDERED_DICT, disabled>>

vars == <<fail_on_change, task_class, playbook_name, play_name, task_data, now, ev,
          fault, report, arrivals, engine, startup>>

NoTask == [_uuid |-> "-", name |-> <<>>, args |-> <<>>, no_log |-> FALSE, path |-> <<>>]
Event(kind, task, ignore_errors) ==
    [kind |-> kind, task |-> task, ignore_errors |-> ignore_errors]
NoReport == [written |-> FALSE, suite |-> None, test_cases |-> <<>>]

\* self.disabled with the test of HAS_JUNIT_XML left out
DisabledOrderedDictOnly(has_junit_xml, has_ordered_dict) == ~has_ordered_dict

\* self.disabled as __init__ leaves it
Disabled(has_junit_xml, has_ordered_dict) == ~has_junit_xml \/ ~has_ordered_dict

\* CallbackModule.__init__
Created ==
    /\ disabled = Disabled(HAS_JUNIT_XML, HAS_ORDERED_DICT)
    /\ playbook_name = None
    /\ play_name = None
    /\ task_data = IF HAS_ORDERED_DICT THEN <<>> ELSE None
    /\ now = 0
    /\ ev = Event("init", NoTask, FALSE)
    /\ fault = "none"
    /\ report = NoReport
    /\ arrivals = <<>>

\* the store under the default options
Init ==
    /\ HAS_JUNIT_XML = TRUE
    /\ HAS_ORDERED_DICT = TRUE
    /\ fail_on_change = "false"
    /\ task_class = "false"
    /\ engine = StoreRun
    /\ Created

\* one outcome under every setting of the options
InitReport ==
    /\ HAS_JUNIT_XML = TRUE
    /\ HAS_ORDERED_DICT = TRUE
    /\ fail_on_change \in {"true", "false"}
    /\ task_class \in {"true", "false"}
    /\ engine = ReportRun
    /\ Created

\* the store under the default options, one outcome more
InitMerge ==
    /\ HAS_JUNIT_XML = TRUE
    /\ HAS_ORDERED_DICT = TRUE
    /\ fail_on_change = "false"
    /\ task_class = "false"
    /\ engine = MergeRun
    /\ Created

\* the default options, with or without each of the two imports
InitStartup ==
    /\ HAS_JUNIT_XML \in BOOLEAN
    /\ HAS_ORDERED_DICT \in BOOLEAN
    /\ fail_on_change = "false"
    /\ task_class = "false"
    /\ engine = ReportRun
    /\ Created

\* the engine calls v2_playbook_on_start first and v2_playbook_on_stats last
Running == playbook_name # None /\ ~report.written

\* the engine's send_callback calls the handlers of a plugin that is not disabled
SendCallbackCalls == ~disabled

EventKinds ==
    {"playbook_start", "play_start", "start", "failed", "ok", "skipped", "include",
     "stats"}

\* and passes over a plugin that is disabled: the event is sent, no handler runs
SendCallbackSkips ==
    \E kind \in EventKinds, ignore_errors \in BOOLEAN :
        /\ disabled
        /\ ignore_errors => kind = "failed"
        /\ ev' = Event(kind, NoTask, ignore_errors)
        /\ UNCHANGED <<fail_on_change, task_class, playbook_name, play_name, task_data,
                       now, fault, report, arrivals, engine, startup>>

v2_playbook_on_start ==
    \E playbook \in Playbooks :
        /\ SendCallbackCalls
        /\ playbook_name = None
        /\ playbook_name' = playbook.stem
        /\ ev' = Event("playbook_start", NoTask, FALSE)
        /\ fault' = "none"
        /\ UNCHANGED <<fail_on_change, task_class, play_name, task_data, now, report,
                       arrivals, engine, startup>>

v2_playbook_on_play_start ==
    \E play \in Plays :
        /\ SendCallbackCalls
        /\ Running
        /\ play_name' = play
        /\ ev' = Event("play_start", NoTask, FALSE)
        /\ fault' = "none"
        /\ UNCHANGED <<fail_on_change, task_class, playbook_name, task_data, now, report,
                       arrivals, engine, startup>>

\* the four handlers that only call _start_task; the engine starts the tasks of a play
\* after the play
OnStart(task) ==
    /\ SendCallbackCalls
    /\ Running
    /\ engine.play_first => play_name # None
    /\ task_data' = StartTask(task_data, play_name, task, now)
    /\ ev' = Event("start", task, FALSE)
    /\ fault' = "none"
    /\ UNCHANGED <<fail_on_change, task_class, playbook_name, play_name, now, report,
                   arrivals, engine, startup>>

v2_runner_on_no_hosts == \E task \in engine.tasks : OnStart(task)

v2_playbook_on_task_start == \E task \in engine.tasks : OnStart(task)

v2_playbook_on_cleanup_task_start == \E task \in engine.tasks : OnStart(task)

v2_playbook_on_handler_task_start == \E task \in engine.tasks : OnStart(task)

\* the four handlers that only call _finish_task; the clock has moved on when the next
\* handler reads it
OnFinish(kind, ignore_errors, status, result) ==
    LET r == FinishTask(task_data, fail_on_change, status, result, now)
    IN  /\ SendCallbackCalls
        /\ Running
        /\ Len(arrivals) < engine.outcomes
        /\ task_data' = r.data
        /\ fault' = r.fault
        /\ ev' = Event(kind, NoTask, ignore_errors)
        /\ now' = now + 1
        /\ arrivals' = Append(arrivals, [status |-> status, result |-> result,
                                         started |-> result._task \in Keys(task_data),
                                         raised |-> r.fault])
        /\ UNCHANGED <<fail_on_change, task_class, playbook_name, play_name, report,
                       engine, startup>>

\* v2_runner_on_failed without the ignore_errors branch
v2_runner_on_failed_unignored ==
    \E result \in engine.results, ignore_errors \in BOOLEAN :
        OnFinish("failed", ignore_errors, "failed", result)

v2_runner_on_failed ==
    \E result \in engine.results, ignore_errors \in BOOLEAN :
        OnFinish("failed", ignore_errors, IF ignore_errors THEN "ok" ELSE "failed", result)

v2_runner_on_ok == \E result \in engine.results : OnFinish("ok", FALSE, "ok", result)

v2_runner_on_skipped ==
    \E result \in engine.results : OnFinish("skipped", FALSE, "skipped", result)

v2_playbook_on_include ==
    \E included_file \in engine.results :
        OnFinish("include", FALSE, "included", included_file)

\* v2_playbook_on_stats emptying the store it reported
v2_playbook_on_stats_consuming ==
    /\ SendCallbackCalls
    /\ playbook_name # None
    /\ report' = [written |-> TRUE, suite |-> playbook_name,
                  test_cases |-> GenerateReport(task_class, task_data)]
    /\ task_data' = <<>>
    /\ ev' = Event("stats", NoTask, FALSE)
    /\ fault' = "none"
    /\ UNCHANGED <<fail_on_change, task_class, playbook_name, play_name, now,
                   arrivals, engine, startup>>

v2_playbook_on_stats ==
    /\ SendCallbackCalls
    /\ playbook_name # None
    /\ report' = [written |-> TRUE, suite |-> playbook_name,
                  test_cases |-> GenerateReport(task_class, task_data)]
    /\ ev' = Event("stats", NoTask, FALSE)
    /\ fault' = "none"
    /\ UNCHANGED <<fail_on_change, task_class, playbook_name, play_name, task_data, now,
                   arrivals, engine, startup>>

Next ==
    \/ v2_playbook_on_start
    \/ v2_playbook_on_play_start
    \/ v2_runner_on_no_hosts
    \/ v2_playbook_on_task_start
    \/ v2_playbook_on_cleanup_task_start
    \/ v2_playbook_on_handler_task_start
    \/ v2_runner_on_failed
    \/ v2_runner_on_ok
    \/ v2_runner_on_skipped
    \/ v2_playbook_on_include
    \/ v2_playbook_on_stats

Spec == Init /\ [][Next]_vars

SpecReport == InitReport /\ [][Next]_vars

SpecMerge == InitMerge /\ [][Next]_vars

\* the events of a run, sent to a plugin that may have disabled itself
NextStartup == Next \/ SendCallbackSkips

SpecStartup == InitStartup /\ [][NextStartup]_vars

(***************************************************************************)
(* Reading the history and the report.                                     *)
(***************************************************************************)
\* the (task id, host id) pair an outcome notification is about
PairOf(a) == <<a.result._task, HostUuidOf(a.result)>>

\* every outcome followed its task's start, and no pair received two outcomes
StartThenOutcomeUnique ==
    /\ \A i \in 1..Len(arrivals) : arrivals[i].started
    /\ \A i, j \in 1..Len(arrivals) : i # j => PairOf(arrivals[i]) # PairOf(arrivals[j])

EntryPair(e) == <<e.task, e.host>>
EntriesOf(pair) ==
    {k \in 1..Len(report.test_cases) : EntryPair(report.test_cases[k]) = pair}
EntryIndex(pair) == CHOOSE k \in EntriesOf(pair) : TRUE

\* the task ids in the store that have no host record
TasksWithoutOutcome == {i \in 1..Len(task_data) : task_data[i].host_data = <<>>}

(***************************************************************************)
(* C1: when every outcome followed its task's start and every (task id,    *)
(* host id) pair received at most one outcome, the report built at run-end *)
(* holds exactly one entry for each pair that received an outcome and no   *)
(* other entry; a task that started without an outcome contributes none.   *)
(***************************************************************************)
C1_OneEntryPerPair ==
    (report.written /\ StartThenOutcomeUnique) =>
        /\ \A i \in 1..Len(arrivals) : Cardinality(EntriesOf(PairOf(arrivals[i]))) = 1
        /\ \A k \in 1..Len(report.test_cases) :
              \E i \in 1..Len(arrivals) :
                  EntryPair(report.test_cases[k]) = PairOf(arrivals[i])

\* a report of two pairs, built while a started task had no outcome
C1_Witness ==
    /\ report.written
    /\ StartThenOutcomeUnique
    /\ Len(arrivals) = 2
    /\ Len(report.test_cases) = 2
    /\ TasksWithoutOutcome # {}

(***************************************************************************)
(* C2, as claimed: under the same precondition the entries are in the      *)
(* order in which the outcomes of their pairs arrived, also for pairs of   *)
(* different tasks whose outcomes interleave.                              *)
(***************************************************************************)
C2_ArrivalOrder ==
    (report.written /\ StartThenOutcomeUnique) =>
        \A i, j \in 1..Len(arrivals) :
            i < j => EntryIndex(PairOf(arrivals[i])) < EntryIndex(PairOf(arrivals[j]))

(***************************************************************************)
(* C2, amended: under the same precondition the entries are grouped by     *)
(* task, the tasks in the order of their first task-start; within one task *)
(* the entries are in the order in which the outcomes of their pairs       *)
(* arrived. Between different tasks the order of the outcomes plays no     *)
(* part.                                                                   *)
(***************************************************************************)
C2_TaskThenArrivalOrder ==
    (report.written /\ StartThenOutcomeUnique) =>
        /\ \A i, j \in 1..Len(arrivals) :
              (i < j /\ arrivals[i].result._task = arrivals[j].result._task) =>
                  EntryIndex(PairOf(arrivals[i])) < EntryIndex(PairOf(arrivals[j]))
        /\ \A k, l \in 1..Len(report.test_cases) :
              (k < l /\ report.test_cases[k].task # report.test_cases[l].task) =>
                  /\ IndexOf(task_data, report.test_cases[k].task)
                       < IndexOf(task_data, report.test_cases[l].task)
                  /\ Get(task_data, report.test_cases[k].task).start
                       <= Get(task_data, report.test_cases[l].task).start

\* the later outcome's entry comes first: its task was started first
C2_Witness ==
    /\ report.written
    /\ StartThenOutcomeUnique
    /\ Len(arrivals) = 2
    /\ arrivals[1].result._task # arrivals[2].result._task
    /\ EntryIndex(PairOf(arrivals[2])) < EntryIndex(PairOf(arrivals[1]))

(***************************************************************************)
(* Reading one step.                                                       *)
(***************************************************************************)
\* the step delivers an outcome notification
OutcomeStep == Len(arrivals') = Len(arrivals) + 1
Arrived == arrivals'[Len(arrivals')]

\* the host record of a pair, when the store holds one
HasRecord(data, pair) ==
    /\ pair[1] \in Keys(data)
    /\ pair[2] \in Keys(Get(data, pair[1]).host_data)
RecordOf(data, pair) == Get(Get(data, pair[1]).host_data, pair[2])

Distinct(d) == \A i, j \in 1..Len(d) : i # j => d[i].uuid # d[j].uuid

(***************************************************************************)
(* C3: a task-start for a task id already in the store leaves the whole    *)
(* store unchanged, also when it carries another name or path or arrives   *)
(* after the play changed; the store holds one TaskData per started task   *)
(* id: a task-start leaves its id in the store, a step adds no other id,   *)
(* and no id is held twice.                                                *)
(***************************************************************************)
C3_StartIdempotent ==
    [][ /\ (ev'.kind = "start" /\ ev'.task._uuid \in Keys(task_data)) =>
              task_data' = task_data
        /\ ev'.kind = "start" =>
              /\ ev'.task._uuid \in Keys(task_data')
              /\ Keys(task_data') = Keys(task_data) \cup {ev'.task._uuid}
              /\ Len(task_data') = Cardinality(Keys(task_data'))
        /\ ev'.kind # "start" => Keys(task_data') = Keys(task_data)
        /\ Distinct(task_data') ]_vars

\* a second task-start with another name and path, after the play changed, for a task
\* that has a host record, while another task is in the store
C3_Witness ==
    /\ ev.kind = "start"
    /\ ev.task._uuid \in Keys(task_data)
    /\ Get(task_data, ev.task._uuid).name # TaskName(ev.task)
    /\ Get(task_data, ev.task._uuid).path # ev.task.path
    /\ Get(task_data, ev.task._uuid).play # play_name
    /\ Get(task_data, ev.task._uuid).host_data # <<>>
    /\ Len(task_data) = 2

(***************************************************************************)
(* C4: when n >= 2 outcomes arrived for a pair, all of them 'included' and *)
(* all after the task's start, the task holds one HostData for that host   *)
(* id and its payload is the renderings of the n payloads joined by        *)
(* newlines, in arrival order.                                             *)
(***************************************************************************)
ArrivalsOf(pair) == SelectSeq(arrivals, LAMBDA a : PairOf(a) = pair)

RECURSIVE JoinLines(_)
JoinLines(as) ==
    IF Len(as) = 1 THEN <<Repr(as[1].result._result)>>
    ELSE JoinLines(SubSeq(as, 1, Len(as) - 1)) \o <<"\n">>
         \o <<Repr(as[Len(as)].result._result)>>

OnlyIncluded(as) == \A i \in 1..Len(as) : as[i].status = "included" /\ as[i].started

AllPairs == {PairOf(arrivals[i]) : i \in 1..Len(arrivals)}

C4_IncludedJoined ==
    \A pair \in AllPairs :
        LET as == ArrivalsOf(pair)
        IN  (Len(as) >= 2 /\ OnlyIncluded(as)) =>
                /\ HasRecord(task_data, pair)
                /\ Cardinality({i \in 1..Len(Get(task_data, pair[1]).host_data) :
                                   Get(task_data, pair[1]).host_data[i].uuid = pair[2]}) = 1
                /\ RecordOf(task_data, pair).status = "included"
                /\ RecordOf(task_data, pair).result = StrValue(JoinLines(as))

\* every outcome delivered was an 'included' one for the same pair, with two payloads
C4_Witness ==
    /\ Len(arrivals) = MaxOutcomes
    /\ OnlyIncluded(arrivals)
    /\ Cardinality(AllPairs) = 1
    /\ arrivals[1].result # arrivals[2].result

(***************************************************************************)
(* C5: an outcome other than 'included' for a pair that has a HostData     *)
(* raises the duplicate-callback exception, whatever the status of the     *)
(* HostData is.                                                            *)
(***************************************************************************)
C5_DuplicateRaises ==
    [][ (/\ OutcomeStep
         /\ HasRecord(task_data, PairOf(Arrived))
         /\ Reclassify(fail_on_change, Arrived.status, Arrived.result,
                       Get(task_data, Arrived.result._task).name) # "included")
        => fault' = "duplicate" ]_vars

\* an 'ok' or 'failed' or 'skipped' outcome raised on a pair whose record is 'included'
C5_Witness ==
    /\ fault = "duplicate"
    /\ arrivals # <<>>
    /\ arrivals[Len(arrivals)].status # "included"
    /\ RecordOf(task_data, PairOf(arrivals[Len(arrivals)])).status = "included"

(***************************************************************************)
(* C6: a HostData with a status other than 'included' keeps its status,    *)
(* payload and finish time in every later state, and every later outcome   *)
(* for its pair, an 'included' one too, raises the duplicate-callback      *)
(* exception.                                                              *)
(***************************************************************************)
C6_TerminalRecord ==
    [][ \A t \in TaskUuids, h \in HostUuids \cup {"include"} :
          (HasRecord(task_data, <<t, h>>)
           /\ RecordOf(task_data, <<t, h>>).status # "included") =>
              /\ HasRecord(task_data', <<t, h>>)
              /\ RecordOf(task_data', <<t, h>>) = RecordOf(task_data, <<t, h>>)
              /\ (OutcomeStep /\ PairOf(Arrived) = <<t, h>>) => fault' = "duplicate"
      ]_vars

(***************************************************************************)
(* C7: an outcome for a task id that no task-start was processed for       *)
(* raises, and creates no TaskData and no HostData.                        *)
(***************************************************************************)
C7_UnknownTaskRaises ==
    [][ (OutcomeStep /\ Arrived.result._task \notin Keys(task_data)) =>
            /\ fault' = "KeyError"
            /\ task_data' = task_data ]_vars

\* the exception was raised while the store held another task
C7_Witness ==
    /\ fault = "KeyError"
    /\ arrivals # <<>>
    /\ ~arrivals[Len(arrivals)].started
    /\ task_data # <<>>
    /\ arrivals[Len(arrivals)].result._task \notin Keys(task_data)

(***************************************************************************)
(* Reading the markers of a test case.                                     *)
(***************************************************************************)
Markers(case) ==
    {m \in {"failure", "error", "skipped"} :
        \/ m = "failure" /\ case.failure.added
        \/ m = "error" /\ case.error.added
        \/ m = "skipped" /\ case.skipped.added}

\* the HostData the step's outcome recorded, and the test case built from it
Recorded == RecordOf(task_data', PairOf(Arrived))
RecordedCase ==
    BuildTestCase(task_class, Get(task_data', Arrived.result._task), Recorded)
RecordedName == Get(task_data', Arrived.result._task).name

\* the last outcome delivered, its HostData and its entry in the report
LastArrival == arrivals[Len(arrivals)]
LastEntry == report.test_cases[EntryIndex(PairOf(LastArrival))].case

(***************************************************************************)
(* C8, as claimed: with fail-on-change enabled an 'ok' outcome with        *)
(* changed=true is recorded as failed and its entry carries the failure    *)
(* marker, for every task name and every payload; with it disabled the     *)
(* outcome is recorded as ok and its entry carries no marker.              *)
(***************************************************************************)
C8_ChangedAlwaysFailure ==
    [][ (/\ OutcomeStep
         /\ Arrived.status = "ok"
         /\ Arrived.raised = "none"
         /\ GetChanged(Arrived.result._result)) =>
            IF fail_on_change = "true"
            THEN Recorded.status = "failed" /\ Markers(RecordedCase) = {"failure"}
            ELSE Recorded.status = "ok" /\ Markers(RecordedCase) = {} ]_vars

(***************************************************************************)
(* C8, amended: with fail-on-change enabled an 'ok' outcome with           *)
(* changed=true is recorded as failed unless the task's recorded name      *)
(* contains 'EXPECTED FAILURE', and then as ok with no marker; the entry   *)
(* of the failed record carries the failure marker when the payload has no *)
(* 'exception' field and the error marker when it has one. With            *)
(* fail-on-change disabled the outcome is recorded as ok and its entry     *)
(* carries no marker.                                                      *)
(***************************************************************************)
C8_ChangedFails ==
    [][ (/\ OutcomeStep
         /\ Arrived.status = "ok"
         /\ Arrived.raised = "none"
         /\ GetChanged(Arrived.result._result)) =>
            IF fail_on_change = "true" /\ ~Contains(RecordedName, EXPECTED_FAILURE)
            THEN /\ Recorded.status = "failed"
                 /\ Markers(RecordedCase) =
                      IF "exception" \in Arrived.result._result.keys
                      THEN {"error"} ELSE {"failure"}
            ELSE Recorded.status = "ok" /\ Markers(RecordedCase) = {} ]_vars

\* the report of a run with fail-on-change enabled and a changed 'ok' outcome, marked
\* failed
C8_Witness ==
    /\ report.written
    /\ fail_on_change = "true"
    /\ arrivals # <<>>
    /\ LastArrival.status = "ok"
    /\ LastArrival.raised = "none"
    /\ GetChanged(LastArrival.result._result)
    /\ Markers(LastEntry) = {"failure"}

(***************************************************************************)
(* C9: a 'failed' outcome (ignore_errors not set) of a task whose recorded *)
(* name contains 'EXPECTED FAILURE' is recorded as ok, and its entry       *)
(* carries no failure, error or skipped marker, whatever the payload.      *)
(***************************************************************************)
C9_ExpectedFailurePasses ==
    [][ (/\ OutcomeStep
         /\ Arrived.status = "failed"
         /\ Arrived.raised = "none"
         /\ Contains(RecordedName, EXPECTED_FAILURE)) =>
            /\ Recorded.status = "ok"
            /\ Markers(RecordedCase) = {} ]_vars

\* the report of such a failure whose payload has an exception, a message and rc=1
C9_Witness ==
    /\ report.written
    /\ arrivals # <<>>
    /\ LastArrival.status = "failed"
    /\ LastArrival.raised = "none"
    /\ ev.kind = "stats"
    /\ Contains(Get(task_data, LastArrival.result._task).name, EXPECTED_FAILURE)
    /\ {"exception", "msg", "rc"} \subseteq LastArrival.result._result.keys
    /\ Markers(LastEntry) = {}

(***************************************************************************)
(* C10: the entry of a HostData whose status is 'failed' carries the error *)
(* marker exactly when the payload has an 'exception' field and the        *)
(* failure marker exactly when it has none: one of the two, never both,    *)
(* never neither.                                                          *)
(***************************************************************************)
FailedEntryMarked(host, case) ==
    host.status = "failed" =>
        /\ case.error.added <=> "exception" \in host.result.obj._result.keys
        /\ case.failure.added <=> "exception" \notin host.result.obj._result.keys
        /\ ~case.skipped.added

C10_ErrorIffException ==
    /\ \A i \in 1..Len(task_data) : \A j \in 1..Len(task_data[i].host_data) :
          FailedEntryMarked(task_data[i].host_data[j],
                            BuildTestCase(task_class, task_data[i],
                                          task_data[i].host_data[j]))
    /\ \A k \in 1..Len(report.test_cases) :
          FailedEntryMarked(RecordOf(task_data, EntryPair(report.test_cases[k])),
                            report.test_cases[k].case)

\* a failed record whose payload has both an exception and a message, reported as error
C10_Witness ==
    /\ report.written
    /\ arrivals # <<>>
    /\ HasRecord(task_data, PairOf(LastArrival))
    /\ RecordOf(task_data, PairOf(LastArrival)).status = "failed"
    /\ {"exception", "msg"} \subseteq LastArrival.result._result.keys
    /\ Markers(LastEntry) = {"error"}

(***************************************************************************)
(* Reading the step of an 'ok' notification or of a failure notification   *)
(* with ignore_errors set.                                                 *)
(***************************************************************************)
IgnoredFailureStep == OutcomeStep /\ ev'.kind = "failed" /\ ev'.ignore_errors
OkStep == OutcomeStep /\ ev'.kind = "ok"

(***************************************************************************)
(* C11, as claimed: a failure notification with ignore_errors set records  *)
(* what an 'ok' notification records, a function of the payload and the    *)
(* fail-on-change option alone: failed when the option is enabled and the  *)
(* payload is changed, ok otherwise. The 'EXPECTED FAILURE' marker in the  *)
(* task name plays no part.                                                *)
(***************************************************************************)
C11_IgnoredFailureMarkerFree ==
    [][ ((IgnoredFailureStep \/ OkStep) /\ fault' = "none") =>
            /\ Arrived.status = "ok"
            /\ Recorded.status =
                 IF fail_on_change = "true" /\ GetChanged(Arrived.result._result)
                 THEN "failed" ELSE "ok" ]_vars

(***************************************************************************)
(* C11, amended: a failure notification with ignore_errors set reaches the *)
(* status rules as 'ok' and records what an 'ok' notification records for  *)
(* the same task, host and payload under the same options: failed when     *)
(* fail-on-change is enabled, the payload is changed and the task's        *)
(* recorded name does not contain 'EXPECTED FAILURE'; ok otherwise. The    *)
(* marker plays a part in exactly that case: it turns the failure of the   *)
(* change rule back into ok.                                               *)
(***************************************************************************)
C11_IgnoredFailureAsOk ==
    [][ ((IgnoredFailureStep \/ OkStep) /\ fault' = "none") =>
            /\ Arrived.status = "ok"
            /\ Recorded.status =
                 IF /\ fail_on_change = "true"
                    /\ GetChanged(Arrived.result._result)
                    /\ ~Contains(RecordedName, EXPECTED_FAILURE)
                 THEN "failed" ELSE "ok"
            /\ Recorded.result = ObjValue(Arrived.result)
            /\ Recorded.uuid = HostUuidOf(Arrived.result) ]_vars

\* an ignored failure with a changed payload under fail-on-change, recorded ok because
\* of the marker in the task's name
C11_Witness ==
    /\ arrivals # <<>>
    /\ ev.kind = "failed"
    /\ ev.ignore_errors
    /\ fault = "none"
    /\ fail_on_change = "true"
    /\ GetChanged(LastArrival.result._result)
    /\ Contains(Get(task_data, LastArrival.result._task).name, EXPECTED_FAILURE)
    /\ RecordOf(task_data, PairOf(LastArrival)).status = "ok"

(***************************************************************************)
(* C12: with the group-by-file option enabled the classname of an entry is *)
(* the task path without its trailing ':<line number>' (the file name and  *)
(* its extension stay), whatever the extension; with the option disabled   *)
(* the classname is the task path unchanged.                               *)
(***************************************************************************)
\* a path is <<..., extension, ":", line>>
WithoutLine(path) == SubSeq(path, 1, Len(path) - 2)

C12_ClassnameIsFile ==
    \A k \in 1..Len(report.test_cases) :
        LET e == report.test_cases[k]
            path == Get(task_data, e.task).path
        IN  e.case.classname = IF task_class = "true" THEN WithoutLine(path) ELSE path

(***************************************************************************)
(* C13: when junit_xml or OrderedDict could not be imported the plugin is  *)
(* disabled from its construction on, and every event sent afterwards      *)
(* (playbook start, play start, task start, any outcome, stats) raises     *)
(* nothing, changes no record and no context, and writes no report.        *)
(***************************************************************************)
CapabilityMissing == ~HAS_JUNIT_XML \/ ~HAS_ORDERED_DICT

C13_DisabledNoOp ==
    /\ [](CapabilityMissing => disabled /\ fault = "none" /\ ~report.written)
    /\ [][ CapabilityMissing =>
              /\ disabled'
              /\ task_data' = task_data
              /\ playbook_name' = playbook_name
              /\ play_name' = play_name
              /\ report' = report
              /\ arrivals' = arrivals ]_vars

\* the stats event was sent to a plugin that lacks junit_xml only: nothing was written
C13_Witness ==
    /\ ~HAS_JUNIT_XML
    /\ HAS_ORDERED_DICT
    /\ disabled
    /\ ev.kind = "stats"
    /\ task_data = <<>>
    /\ report = NoReport

(***************************************************************************)
(* C14: the recorded status is what the rules give when applied in order   *)
(* to one running status. An 'ok' status with a changed payload under      *)
(* fail-on-change becomes failed by rule 1 and, being failed, is turned    *)
(* back to ok by rule 2 when the task's name contains 'EXPECTED FAILURE';  *)
(* a 'failed' status that rule 2 turned to ok stays ok, also with a        *)
(* changed payload under fail-on-change; a status left failed is marked    *)
(* error with an 'exception' field and failure without; 'skipped' and      *)
(* 'included' are recorded unchanged for every payload, name and option.   *)
(***************************************************************************)
C14_RulesInOrder ==
    [][ (OutcomeStep /\ fault' = "none") =>
            LET s == Arrived.status
                changed == fail_on_change = "true" /\ GetChanged(Arrived.result._result)
                marked == Contains(RecordedName, EXPECTED_FAILURE)
            IN  /\ s \in {"skipped", "included"} => Recorded.status = s
                /\ s = "ok" =>
                      Recorded.status = IF changed /\ ~marked THEN "failed" ELSE "ok"
                /\ s = "failed" =>
                      Recorded.status = IF marked THEN "ok" ELSE "failed"
                /\ Recorded.status = "failed" =>
                      Markers(RecordedCase) =
                        IF "exception" \in Arrived.result._result.keys
                        THEN {"error"} ELSE {"failure"} ]_vars

\* a failure that rule 2 turned to ok, with a changed payload under fail-on-change:
\* rule 1 did not turn it back
C14_Witness ==
    /\ arrivals # <<>>
    /\ ev.kind = "failed"
    /\ ~ev.ignore_errors
    /\ fault = "none"
    /\ fail_on_change = "true"
    /\ GetChanged(LastArrival.result._result)
    /\ Contains(Get(task_data, LastArrival.result._task).name, EXPECTED_FAILURE)
    /\ RecordOf(task_data, PairOf(LastArrival)).status = "ok"

(***************************************************************************)
(* C15: every report entry, and the test case of every HostData in the     *)
(* store, carries the markers its stored status fixes: none for 'included' *)
(* and 'ok' (their output is the stdout of the case), exactly the skipped  *)
(* marker for 'skipped', exactly one of failure and error for 'failed'.    *)
(* An 'included' or 'ok' record never yields a failure or error marker,    *)
(* whatever events led to it.                                              *)
(***************************************************************************)
MarkersFit(host, case) ==
    /\ Cardinality(Markers(case)) <= 1
    /\ host.status \in {"included", "ok"} =>
          Markers(case) = {} /\ case.stdout # NoneValue
    /\ host.status = "skipped" => Markers(case) = {"skipped"}
    /\ host.status = "failed" => Markers(case) \in {{"failure"}, {"error"}}
    /\ host.status \in {"included", "ok", "skipped", "failed"}

C15_OneMarkerByStatus ==
    /\ \A i \in 1..Len(task_data) : \A j \in 1..Len(task_data[i].host_data) :
          MarkersFit(task_data[i].host_data[j],
                     BuildTestCase(task_class, task_data[i], task_data[i].host_data[j]))
    /\ \A k \in 1..Len(report.test_cases) :
          MarkersFit(RecordOf(task_data, EntryPair(report.test_cases[k])),
                     report.test_cases[k].case)

\* the report's one entry is an 'included' record that two outcomes were merged into,
\* the first of them with an exception in its payload: no marker
C15_Witness ==
    /\ report.written
    /\ Len(report.test_cases) = 1
    /\ Len(arrivals) = 2
    /\ arrivals[1].raised = "none"
    /\ arrivals[2].raised = "none"
    /\ "exception" \in arrivals[1].result._result.keys
    /\ RecordOf(task_data, PairOf(LastArrival)).status = "included"
    /\ RecordOf(task_data, PairOf(LastArrival)).result.isstr
    /\ Markers(LastEntry) = {}

(***************************************************************************)
(* Reading the order of the store.                                         *)
(***************************************************************************)
\* the (task id, host id) pairs of the store: task by task, host by host
RECURSIVE StorePairs(_)
StorePairs(data) ==
    IF data = <<>> THEN <<>>
    ELSE [j \in 1..Len(Head(data).host_data) |->
             <<Head(data).uuid, Head(data).host_data[j].uuid>>]
         \o StorePairs(Tail(data))

ReportPairs(r) == [k \in 1..Len(r.test_cases) |-> EntryPair(r.test_cases[k])]

\* d2 holds the ids of d1 at the places they have in d1; what it adds comes after them
KeepsPlaces(d1, d2) ==
    /\ Len(d2) >= Len(d1)
    /\ \A i \in 1..Len(d1) : d2[i].uuid = d1[i].uuid

(***************************************************************************)
(* C16: no step moves a TaskData or a HostData: each keeps the place it    *)
(* got when it was created, and what a step creates comes after all that   *)
(* is there, so the store is in order of creation; a merged 'included'     *)
(* outcome and a repeated task-start move nothing. The report lists the    *)
(* entries in the order of the store: task by task, host by host.          *)
(***************************************************************************)
C16_CreationOrder ==
    [][ /\ KeepsPlaces(task_data, task_data')
        /\ \A i \in 1..Len(task_data) :
              KeepsPlaces(task_data[i].host_data, task_data'[i].host_data)
        /\ report'.written => ReportPairs(report') = StorePairs(task_data') ]_vars

\* the first outcome's pair got a merged 'included' outcome after another host of the
\* task was recorded: its entry is still the first
C16_Witness ==
    /\ report.written
    /\ Len(arrivals) = 3
    /\ \A i \in 1..3 : arrivals[i].raised = "none"
    /\ PairOf(arrivals[3]) = PairOf(arrivals[1])
    /\ PairOf(arrivals[2]) # PairOf(arrivals[1])
    /\ arrivals[3].status = "included"
    /\ Len(task_data) = 2
    /\ ReportPairs(report) = <<PairOf(arrivals[1]), PairOf(arrivals[2])>>

(***************************************************************************)
(* C17: the clock never goes back, and the finish time of every HostData   *)
(* in the store is at or after the start time of its TaskData, also when   *)
(* the HostData comes from merged 'included' outcomes; so the elapsed time *)
(* of every report entry, finish minus start, is >= 0.                     *)
(***************************************************************************)
C17_FinishAfterStart ==
    /\ \A i \in 1..Len(task_data) :
          /\ task_data[i].start <= now
          /\ \A j \in 1..Len(task_data[i].host_data) :
                /\ task_data[i].host_data[j].finish >= task_data[i].start
                /\ task_data[i].host_data[j].finish <= now
    /\ \A k \in 1..Len(report.test_cases) :
          LET e == report.test_cases[k]
          IN  /\ e.case.elapsed_sec >= 0
              /\ e.case.elapsed_sec =
                    RecordOf(task_data, EntryPair(e)).finish - Get(task_data, e.task).start

\* the report of a record that two 'included' outcomes were merged into: the elapsed
\* time runs from the task's start to the second outcome
C17_Witness ==
    /\ report.written
    /\ Len(arrivals) = 2
    /\ PairOf(arrivals[1]) = PairOf(arrivals[2])
    /\ OnlyIncluded(arrivals)
    /\ arrivals[2].raised = "none"
    /\ RecordOf(task_data, PairOf(LastArrival)).result.isstr
    /\ LastEntry.elapsed_sec = 1

(***************************************************************************)
(* C18: the store only grows: the task ids and the (task id, host id)      *)
(* pairs the store holds before a step are in it after the step. The stats *)
(* event leaves the store as it is, and a stats event that follows a       *)
(* written report writes the same test cases in the same order.            *)
(***************************************************************************)
C18_StoreOnlyGrows ==
    [][ /\ Keys(task_data) \subseteq Keys(task_data')
        /\ \A i \in 1..Len(task_data) :
              Keys(task_data[i].host_data)
                  \subseteq Keys(Get(task_data', task_data[i].uuid).host_data)
        /\ ev'.kind = "stats" =>
              /\ task_data' = task_data
              /\ report'.written
              /\ report.written => report'.test_cases = report.test_cases ]_vars

\* a written report of two tasks' records, all of them still in the store
C18_Witness ==
    /\ report.written
    /\ ev.kind = "stats"
    /\ Len(task_data) = 2
    /\ \A i \in 1..2 : Len(task_data[i].host_data) = 1
    /\ ReportPairs(report) = StorePairs(task_data)

(***************************************************************************)
(* Reading a step against the rest of the store.                           *)
(***************************************************************************)
\* every TaskData but the one of task id t, and in that one every HostData but the one
\* of host id h, is the same in d2 as in d1; the TaskData of t keeps its own fields
OthersUnchanged(d1, d2, t, h) ==
    /\ Len(d2) = Len(d1)
    /\ \A i \in 1..Len(d1) :
          IF d1[i].uuid # t THEN d2[i] = d1[i]
          ELSE /\ [d2[i] EXCEPT !.host_data = <<>>] = [d1[i] EXCEPT !.host_data = <<>>]
               /\ Len(d2[i].host_data) = Len(d1[i].host_data)
               /\ \A j \in 1..Len(d1[i].host_data) :
                     d1[i].host_data[j].uuid # h =>
                         d2[i].host_data[j] = d1[i].host_data[j]

\* the step merges an 'included' outcome into the 'included' HostData of its pair
MergeStep ==
    /\ OutcomeStep
    /\ fault' = "none"
    /\ Arrived.status = "included"
    /\ HasRecord(task_data, PairOf(Arrived))
    /\ RecordOf(task_data, PairOf(Arrived)).status = "included"

(***************************************************************************)
(* C19: when an 'included' outcome is merged into the 'included' HostData  *)
(* of its pair, the HostData keeps its host id, its name, its status and   *)
(* its finish time (that of its creation); only its payload changes, to    *)
(* the old rendering, a newline and the new rendering; every other         *)
(* TaskData and HostData is unchanged.                                     *)
(***************************************************************************)
C19_MergeKeepsIdentity ==
    [][ MergeStep =>
          LET old == RecordOf(task_data, PairOf(Arrived))
          IN  /\ Recorded.uuid = old.uuid
              /\ Recorded.name = old.name
              /\ Recorded.status = old.status
              /\ Recorded.finish = old.finish
              /\ Recorded.result =
                    StrValue(Str(old.result) \o <<"\n">> \o Str(ObjValue(Arrived.result)))
              /\ OthersUnchanged(task_data, task_data', PairOf(Arrived)[1],
                                 PairOf(Arrived)[2]) ]_vars

(***************************************************************************)
(* C20: an event that raises changes nothing. After the duplicate-callback *)
(* exception the HostData of the pair is there with the status, payload    *)
(* and finish time it had; after the KeyError of an unknown task the store *)
(* is the store before the event; in both cases every other record, the    *)
(* playbook name, the play name and the report are unchanged.              *)
(***************************************************************************)
C20_FaultChangesNothing ==
    [][ fault' # "none" =>
          /\ OutcomeStep
          /\ task_data' = task_data
          /\ playbook_name' = playbook_name
          /\ play_name' = play_name
          /\ report' = report
          /\ fault' = "duplicate" =>
                /\ HasRecord(task_data', PairOf(Arrived))
                /\ Recorded = RecordOf(task_data, PairOf(Arrived))
          /\ fault' = "KeyError" => Arrived.result._task \notin Keys(task_data') ]_vars

\* the duplicate-callback exception was raised by a 'skipped' outcome on a pair whose
\* record is 'ok', in a task that holds another host's record, with another task in the
\* store: the record has its status and its finish time
C20_Witness ==
    /\ fault = "duplicate"
    /\ Len(arrivals) = 3
    /\ Len(task_data) = 2
    /\ Len(Get(task_data, LastArrival.result._task).host_data) = 2
    /\ RecordOf(task_data, PairOf(LastArrival)).finish < 2
    /\ RecordOf(task_data, PairOf(LastArrival)).status = "ok"
    /\ LastArrival.status = "skipped"

====
